---- MODULE Spec2Model ----
(***************************************************************************)
(* Pricing resolution and usage aggregation of the Codex usage reports     *)
(* (apps/codex): CodexPricingSource.getPricing with its direct, alias,     *)
(* fuzzy and fallback tiers, the daily / monthly / session report          *)
(* builders, and the daily and session commands that own the pricing       *)
(* source.                                                                 *)
(*                                                                         *)
(* Strings are sequences of one-character strings, so that prefixing,      *)
(* trimming, lower-casing and substring search are computed as the code    *)
(* computes them.  An absent number is the sentinel ABSENT.                *)
(***************************************************************************)
EXTENDS Integers, Sequences, FiniteSets, TLC

\* ------------------------------------------------------------------------
\* Bounds
\* ------------------------------------------------------------------------
\* largest number of keys in the raw price list
MaxKeys == 2
\* largest number of getPricing calls a direct client makes on one source
MaxCalls == 2
\* largest number of usage events handed to a report builder
MaxEvents == 2
\* longest session id handed to the session builder on its own
MaxIdLen == 4

\* ------------------------------------------------------------------------
\* Strings
\* ------------------------------------------------------------------------
ABSENT == -1

S_gpt5 == <<"g", "p", "t", "-", "5">>
S_gpt5codex == <<"g", "p", "t", "-", "5", "-", "c", "o", "d", "e", "x">>
S_GPT5 == <<"G", "P", "T", "-", "5">>
S_gpt53codex == <<"g", "p", "t", "-", "5", ".", "3", "-", "c", "o", "d", "e", "x">>
S_o3 == <<"o", "3">>
S_blank == <<" ", " ">>
S_gpt5padded == <<" ">> \o S_gpt5 \o <<" ">>

\* String.prototype.toLowerCase on the alphabet in use
ToLowerChar(c) ==
  CASE c = "G" -> "g"
    [] c = "P" -> "p"
    [] c = "T" -> "t"
    [] OTHER -> c

ToLower(s) == [i \in 1..Len(s) |-> ToLowerChar(s[i])]

\* String.prototype.includes: t occurs in s as a contiguous substring
Includes(s, t) ==
  \E i \in 0..(Len(s) - Len(t)) : SubSeq(s, i + 1, i + Len(t)) = t

RECURSIVE TrimStart(_)
TrimStart(s) ==
  IF s # <<>> /\ Head(s) = " " THEN TrimStart(Tail(s)) ELSE s

RECURSIVE TrimEnd(_)
TrimEnd(s) ==
  IF s # <<>> /\ s[Len(s)] = " " THEN TrimEnd(SubSeq(s, 1, Len(s) - 1)) ELSE s

\* String.prototype.trim
Trim(s) == TrimEnd(TrimStart(s))

\* ------------------------------------------------------------------------
\* pricing.ts: constants
\* ------------------------------------------------------------------------
MILLION == 1000000

CODEX_PROVIDER_PREFIXES ==
  << <<"o", "p", "e", "n", "a", "i", "/">>,
     <<"a", "z", "u", "r", "e", "/">>,
     <<"o", "p", "e", "n", "r", "o", "u", "t", "e", "r", "/",
       "o", "p", "e", "n", "a", "i", "/">> >>

\* Map([['gpt-5-codex', 'gpt-5']])
CODEX_MODEL_ALIASES_MAP == [m \in {S_gpt5codex} |-> S_gpt5]

\* ------------------------------------------------------------------------
\* The raw price list (LiteLLM records; costs per token in units of 1e-8 USD)
\* ------------------------------------------------------------------------
PriceKeys ==
  << S_gpt5,
     CODEX_PROVIDER_PREFIXES[1] \o S_gpt5,
     CODEX_PROVIDER_PREFIXES[2] \o S_gpt5,
     CODEX_PROVIDER_PREFIXES[3] \o S_gpt5,
     CODEX_PROVIDER_PREFIXES[2] \o S_gpt5codex,
     S_o3 >>

PriceKeySet == {PriceKeys[i] : i \in 1..Len(PriceKeys)}

KeyIndex(k) == CHOOSE i \in 1..Len(PriceKeys) : PriceKeys[i] = k

\* the fields a record may lack; in the price lists a key's record is either
\* full or lacks the field that DefectOf names for the key
DefectOf ==
  <<"nooutput", "noinput", "nocache", "nocache", "noinput", "nooutput">>

\* the record stored under key k: every key has rates of its own, and the
\* first key reads its cache for free
PriceRecord(k, kind) ==
  [input_cost_per_token |->
     IF kind = "noinput" THEN ABSENT ELSE 10 + KeyIndex(k),
   output_cost_per_token |->
     IF kind = "nooutput" THEN ABSENT ELSE 20 + KeyIndex(k),
   cache_read_input_token_cost |->
     IF kind = "full" THEN KeyIndex(k) - 1 ELSE ABSENT]

PriceLists ==
  UNION { { [k \in S |-> PriceRecord(k, IF g[k] THEN "full" ELSE DefectOf[KeyIndex(k)])] :
              g \in [S -> BOOLEAN] } :
          S \in {T \in SUBSET PriceKeySet : Cardinality(T) <= MaxKeys} }

EmptyPriceList == [k \in {} |-> PriceRecord(S_gpt5, "full")]

\* model names asked of getPricing
ModelNames == {S_gpt5, S_gpt5codex, S_GPT5, S_gpt53codex, S_o3}

\* values of options.unknownModelFallback
NoFallback == [set |-> FALSE, value |-> <<>>]
Fallback(s) == [set |-> TRUE, value |-> s]
FallbackOptions ==
  {NoFallback, Fallback(S_blank), Fallback(S_gpt5padded), Fallback(S_GPT5),
   Fallback(S_gpt5codex)}

\* ------------------------------------------------------------------------
\* pricing.ts: the resolution tiers
\* ------------------------------------------------------------------------
Null == [tag |-> "null"]

createResolvedPricing(key, pricing, resolution) ==
  [tag |-> "resolved", key |-> key, pricing |-> pricing, resolution |-> resolution]

Throw(error) == [tag |-> "throw", error |-> error]

\* [model, ...CODEX_PROVIDER_PREFIXES.map((prefix) => `${prefix}${model}`)]
DirectCandidates(model) ==
  <<model>> \o [i \in 1..Len(CODEX_PROVIDER_PREFIXES) |->
                  CODEX_PROVIDER_PREFIXES[i] \o model]

\* findDirectPricing with the candidates taken from the wrong end
findDirectPricing_LastHit(pricingMap, model) ==
  LET candidates == DirectCandidates(model)
      hits == {i \in 1..Len(candidates) : candidates[i] \in DOMAIN pricingMap}
  IN IF hits = {} THEN Null
     ELSE LET last == CHOOSE i \in hits : \A j \in hits : i >= j
          IN createResolvedPricing(candidates[last], pricingMap[candidates[last]],
                                   "direct")

findDirectPricing(pricingMap, model) ==
  LET candidates == DirectCandidates(model)
      hits == {i \in 1..Len(candidates) : candidates[i] \in DOMAIN pricingMap}
  IN IF hits = {} THEN Null
     ELSE LET first == CHOOSE i \in hits : \A j \in hits : i <= j
          IN createResolvedPricing(candidates[first], pricingMap[candidates[first]],
                                   "direct")

\* a resolution found under another name, tagged with the tier that found it
retagged(found, resolution) ==
  IF found.tag = "null" THEN Null
  ELSE createResolvedPricing(found.key, found.pricing, resolution)

findAliasPricing(pricingMap, model) ==
  IF model \notin DOMAIN CODEX_MODEL_ALIASES_MAP THEN Null
  ELSE retagged(findDirectPricing(pricingMap, CODEX_MODEL_ALIASES_MAP[model]), "alias")

\* the keys of the price list that match the name by substring, either way
FuzzyMatches(pricingMap, model) ==
  LET lower == ToLower(model)
  IN {key \in DOMAIN pricingMap :
        LET comparison == ToLower(key)
        IN Includes(comparison, lower) \/ Includes(lower, comparison)}

AmbiguousError(model, matches) ==
  [type |-> "AmbiguousFuzzy", model |-> model, count |-> Cardinality(matches),
   candidates |-> matches]

\* findFuzzyPricing that picks one of several matches instead of throwing
findFuzzyPricing_SilentPick(pricingMap, model) ==
  LET matches == FuzzyMatches(pricingMap, model)
  IN IF Cardinality(matches) = 0 THEN Null
     ELSE LET match == CHOOSE key \in matches : TRUE
          IN createResolvedPricing(match, pricingMap[match], "fuzzy")

findFuzzyPricing(pricingMap, model) ==
  LET matches == FuzzyMatches(pricingMap, model)
  IN IF Cardinality(matches) = 0 THEN Null
     ELSE IF Cardinality(matches) > 1 THEN Throw(AmbiguousError(model, matches))
     ELSE LET match == CHOOSE key \in matches : TRUE
          IN createResolvedPricing(match, pricingMap[match], "fuzzy")

\* ------------------------------------------------------------------------
\* pricing.ts: normalisation and getPricing
\* ------------------------------------------------------------------------
Return(value) == [tag |-> "return", value |-> value]

IncompleteError(model) == [type |-> "IncompletePricing", model |-> model]

FallbackUnresolvedError(fallbackModel, model) ==
  [type |-> "FallbackUnresolved", fallbackModel |-> fallbackModel, model |-> model]

\* fuzzyHint: the message ends with "Fuzzy matching is disabled; pass
\* --allow-fuzzy-pricing to enable it."
PricingNotFoundError(model, fuzzyHint) ==
  [type |-> "PricingNotFound", model |-> model, fuzzyHint |-> fuzzyHint]

toPerMillion(value) == value * MILLION

\* normalizeModelPricing that takes a cache-read cost of zero for a missing one
normalizeModelPricing_ZeroIsMissing(model, resolved) ==
  LET pricing == resolved.pricing
      inputCostPerToken == pricing.input_cost_per_token
      outputCostPerToken == pricing.output_cost_per_token
  IN IF inputCostPerToken = ABSENT \/ outputCostPerToken = ABSENT
     THEN Throw(IncompleteError(model))
     ELSE Return(
       [inputCostPerMToken |-> toPerMillion(inputCostPerToken),
        cachedInputCostPerMToken |->
          toPerMillion(IF pricing.cache_read_input_token_cost > 0
                       THEN pricing.cache_read_input_token_cost
                       ELSE inputCostPerToken),
        outputCostPerMToken |-> toPerMillion(outputCostPerToken),
        pricingResolution |-> resolved.resolution,
        pricingModel |-> resolved.key])

\* normalizeModelPricing that requires the input cost only
normalizeModelPricing_InputOnly(model, resolved) ==
  LET pricing == resolved.pricing
      inputCostPerToken == pricing.input_cost_per_token
      outputCostPerToken == pricing.output_cost_per_token
  IN IF inputCostPerToken = ABSENT
     THEN Throw(IncompleteError(model))
     ELSE Return(
       [inputCostPerMToken |-> toPerMillion(inputCostPerToken),
        cachedInputCostPerMToken |->
          toPerMillion(IF pricing.cache_read_input_token_cost # ABSENT
                       THEN pricing.cache_read_input_token_cost
                       ELSE inputCostPerToken),
        outputCostPerMToken |-> toPerMillion(outputCostPerToken),
        pricingResolution |-> resolved.resolution,
        pricingModel |-> resolved.key])

normalizeModelPricing(model, resolved) ==
  LET pricing == resolved.pricing
      inputCostPerToken == pricing.input_cost_per_token
      outputCostPerToken == pricing.output_cost_per_token
  IN IF inputCostPerToken = ABSENT \/ outputCostPerToken = ABSENT
     THEN Throw(IncompleteError(model))
     ELSE Return(
       [inputCostPerMToken |-> toPerMillion(inputCostPerToken),
        cachedInputCostPerMToken |->
          toPerMillion(IF pricing.cache_read_input_token_cost # ABSENT
                       THEN pricing.cache_read_input_token_cost
                       ELSE inputCostPerToken),
        outputCostPerMToken |-> toPerMillion(outputCostPerToken),
        pricingResolution |-> resolved.resolution,
        pricingModel |-> resolved.key])

\* a ?? b
Coalesce(value, otherwise) == IF value.tag = "null" THEN otherwise ELSE value

\* lines 155-158: the fuzzy tier, for a name no earlier tier resolved
orFuzzy(pricingMap, allowFuzzy, model, resolvedPricing) ==
  IF resolvedPricing.tag = "null" /\ allowFuzzy
  THEN findFuzzyPricing(pricingMap, model)
  ELSE resolvedPricing

\* lines 151-158: direct, then alias, then fuzzy when the caller allowed it
resolveRequested(pricingMap, allowFuzzy, model) ==
  orFuzzy(pricingMap, allowFuzzy, model,
          Coalesce(findDirectPricing(pricingMap, model),
                   findAliasPricing(pricingMap, model)))

\* resolveFallback that also tries the fuzzy tier for the fallback name
resolveFallback_Fuzzy(pricingMap, fallbackModel) ==
  orFuzzy(pricingMap, TRUE, fallbackModel,
          Coalesce(findDirectPricing(pricingMap, fallbackModel),
                   findAliasPricing(pricingMap, fallbackModel)))

\* lines 163-165: findDirectPricing(..) ?? findAliasPricing(..)
resolveFallback(pricingMap, fallbackModel) ==
  Coalesce(findDirectPricing(pricingMap, fallbackModel),
           findAliasPricing(pricingMap, fallbackModel))

\* useFallback that keeps the tier tag of the fallback's own resolution
useFallback_KeepsTier(model, fallbackModel, fallbackPricing) ==
  IF fallbackPricing.tag = "null"
  THEN [result |-> Throw(FallbackUnresolvedError(fallbackModel, model)),
        warned |-> <<>>]
  ELSE [result |-> fallbackPricing,
        warned |-> << [model |-> model, fallbackModel |-> fallbackModel] >>]

\* useFallback that gives up silently when the fallback does not resolve
useFallback_FallsThrough(model, fallbackModel, fallbackPricing) ==
  IF fallbackPricing.tag = "null"
  THEN [result |-> Null, warned |-> <<>>]
  ELSE [result |-> retagged(fallbackPricing, "fallback"),
        warned |-> << [model |-> model, fallbackModel |-> fallbackModel] >>]

\* lines 166-178: what the lookup of the fallback name leads to
useFallback(model, fallbackModel, fallbackPricing) ==
  IF fallbackPricing.tag = "null"
  THEN [result |-> Throw(FallbackUnresolvedError(fallbackModel, model)),
        warned |-> <<>>]
  ELSE [result |-> retagged(fallbackPricing, "fallback"),
        warned |-> << [model |-> model, fallbackModel |-> fallbackModel] >>]

\* lines 160-178: the configured fallback, entered with resolvedPricing == null
\* result: what resolvedPricing becomes (or the throw); warned: logger.warn ran
applyFallback(pricingMap, fallback, model) ==
  IF ~fallback.set \/ Trim(fallback.value) = <<>>
  THEN [result |-> Null, warned |-> <<>>]
  ELSE useFallback(model, Trim(fallback.value),
                   resolveFallback(pricingMap, Trim(fallback.value)))

\* notFound that always prints the hint
notFound_AlwaysHint(allowFuzzy, model) ==
  Throw(PricingNotFoundError(model, TRUE))

\* lines 180-187
notFound(allowFuzzy, model) ==
  IF ~allowFuzzy THEN Throw(PricingNotFoundError(model, TRUE))
  ELSE Throw(PricingNotFoundError(model, FALSE))

\* lines 160-189: the name resolved in no tier of its own
priceUnresolved(allowFuzzy, model, fb) ==
  IF fb.result.tag = "throw"
  THEN [outcome |-> fb.result, warned |-> <<>>]
  ELSE IF fb.result.tag = "null"
  THEN [outcome |-> notFound(allowFuzzy, model), warned |-> <<>>]
  ELSE [outcome |-> normalizeModelPricing(model, fb.result), warned |-> fb.warned]

\* lines 151-189 after the tiers of the requested name have run
priceRequested(pricingMap, allowFuzzy, fallback, model, requested) ==
  IF requested.tag = "throw"
  THEN [outcome |-> requested, warned |-> <<>>]
  ELSE IF requested.tag = "resolved"
  THEN [outcome |-> normalizeModelPricing(model, requested), warned |-> <<>>]
  ELSE priceUnresolved(allowFuzzy, model, applyFallback(pricingMap, fallback, model))

\* lines 151-189: getPricing once the price list is at hand
\* outcome: the returned ModelPricing or the thrown error; warned: the
\* warnings logged on the way
resolvePricing(pricingMap, allowFuzzy, fallback, model) ==
  priceRequested(pricingMap, allowFuzzy, fallback, model,
                 resolveRequested(pricingMap, allowFuzzy, model))

\* ------------------------------------------------------------------------
\* Usage events (TokenUsageEvent); timestamps are ISO strings of one fixed
\* width, encoded as month*10000 + day*100 + hour, which keeps their order
\* ------------------------------------------------------------------------
S_sess1 == <<"d", "/", "a", "/", "s", "1">>
S_sess2 == <<"s", "2">>

NoModel == [set |-> FALSE, value |-> <<>>]
Model(s) == [set |-> TRUE, value |-> s]

Event(ts, sessionId, model, fb, inp, cached, out, reasoning) ==
  [timestamp |-> ts, sessionId |-> sessionId, model |-> model,
   isFallbackModel |-> fb, inputTokens |-> inp, cachedInputTokens |-> cached,
   outputTokens |-> out, reasoningOutputTokens |-> reasoning,
   totalTokens |-> inp + out]

EventPool ==
  << Event(91103, S_sess1, Model(S_gpt5), FALSE, 10, 2, 5, 0),
     Event(91105, S_sess1, Model(<<" ">> \o S_gpt53codex), TRUE, 4, 1, 2, 1),
     Event(91105, S_sess2, Model(S_gpt5codex), FALSE, 8, 0, 3, 0),
     Event(91104, S_sess2, NoModel, FALSE, 6, 0, 1, 0),
     Event(81001, S_sess2, Model(S_gpt5), FALSE, 7, 3, 2, 0),
     Event(91202, S_blank, Model(S_o3), FALSE, 5, 0, 4, 2),
     Event(91203, S_sess1, Model(S_blank), FALSE, 3, 0, 1, 0),
     Event(91104, S_sess1, Model(S_gpt53codex), FALSE, 7, 0, 3, 0) >>

EventLists ==
  UNION { [1..n -> {EventPool[i] : i \in 1..Len(EventPool)}] : n \in 0..MaxEvents }

\* session ids of every shape: with and without '/', with blanks around
SessionIdChars == {"s", "/", " "}

SessionIds == UNION { [1..n -> SessionIdChars] : n \in 0..MaxIdLen }

\* the inclusive [since, until] day filters of a run (day = month*100 + day)
DateRanges ==
  { [since |-> ABSENT, until |-> ABSENT],
    [since |-> 911, until |-> 911] }

\* the pricing sources of the report runs: price list, whether it loads,
\* --allow-fuzzy-pricing, --unknown-model-fallback
ReportSources ==
  { [pricingMap |-> [k \in {S_gpt5} |-> PriceRecord(k, "full")],
     available |-> TRUE, allowFuzzy |-> FALSE, fallback |-> NoFallback],
    [pricingMap |-> [k \in {S_gpt5} |-> PriceRecord(k, "full")],
     available |-> TRUE, allowFuzzy |-> FALSE, fallback |-> Fallback(S_gpt5padded)],
    [pricingMap |-> [k \in {S_gpt5, S_o3} |->
                      PriceRecord(k, IF k = S_o3 THEN "nooutput" ELSE "nocache")],
     available |-> TRUE, allowFuzzy |-> TRUE, fallback |-> NoFallback],
    [pricingMap |-> EmptyPriceList,
     available |-> FALSE, allowFuzzy |-> FALSE, fallback |-> NoFallback] }

\* ------------------------------------------------------------------------
\* State
\* ------------------------------------------------------------------------
VARIABLES
  entry,                 \* who owns the source: "api" (a direct client of
                         \* CodexPricingSource), "daily" / "session" (the
                         \* command), "monthly" (buildMonthlyReport called
                         \* with a source)
  pricingMap,            \* the raw price list the fetcher loads
  sourceAvailable,       \* whether loading the price list succeeds
  allowFuzzyPricing,     \* this.allowFuzzyPricing
  unknownModelFallback,  \* this.unknownModelFallback
  created,               \* the CodexPricingSource has been constructed
  fetcherCache,          \* the fetcher's cached load: "none", "loaded", "failed"
  fetchCount,            \* loads of the raw price list performed
  disposeCount,          \* calls of [Symbol.dispose]
  results,               \* per model name, the outcomes of the getPricing calls
  resolveCount,          \* per model name, the runs of the tier resolution
  warnings,              \* logger.warn calls of getPricing, in order
  events,                \* the events loaded for the run
  range,                 \* since / until
  cmdPc,                 \* position of the command's run
  exitPath,              \* how the command left its try block
  output,                \* what the command logged
  buildPc,               \* position of the report builder
  idx,                   \* events consumed by the builder's loop
  summaries,             \* Map of summaries, in insertion order
  uniqueModels,          \* Set of model names, in insertion order
  modelPricing,          \* Map model -> ModelPricing, in insertion order
  rows,                  \* the rows the builder returned
  buildError             \* the error the builder rejected with

sourceVars == <<pricingMap, sourceAvailable, allowFuzzyPricing, unknownModelFallback>>
callVars == <<fetcherCache, fetchCount, results, resolveCount, warnings>>
runVars == <<entry, events, range>>
cmdVars == <<cmdPc, exitPath, output>>
buildVars == <<buildPc, idx, summaries, uniqueModels, modelPricing, rows, buildError>>

vars == <<sourceVars, callVars, runVars, cmdVars, buildVars, created, disposeCount>>

NoError == [type |-> "none"]
SourceUnavailableError == [type |-> "PricingSourceUnavailable"]

\* LiteLLMPricingFetcher.fetchModelPricing: the price list is loaded on the
\* first call and the load, successful or not, is kept for the session
fetchModelPricing(cache, available) ==
  IF cache = "none"
  THEN [cache |-> IF available THEN "loaded" ELSE "failed", fetched |-> 1]
  ELSE [cache |-> cache, fetched |-> 0]

\* the outcome of a call that ran the resolution tiers
ran(r) == [outcome |-> r.outcome, warned |-> r.warned, resolved |-> 1]

\* getPricing that remembers the outcome of the first call for a name
getPricing_Memo(model) ==
  IF results[model] # <<>>
  THEN [outcome |-> results[model][1], warned |-> <<>>, resolved |-> 0]
  ELSE IF fetchModelPricing(fetcherCache, sourceAvailable).cache = "failed"
  THEN [outcome |-> Throw(SourceUnavailableError), warned |-> <<>>, resolved |-> 0]
  ELSE ran(resolvePricing(pricingMap, allowFuzzyPricing, unknownModelFallback, model))

\* CodexPricingSource.getPricing(model): the outcome of the call in this state
getPricing(model) ==
  IF fetchModelPricing(fetcherCache, sourceAvailable).cache = "failed"
  THEN [outcome |-> Throw(SourceUnavailableError), warned |-> <<>>, resolved |-> 0]
  ELSE ran(resolvePricing(pricingMap, allowFuzzyPricing, unknownModelFallback, model))

\* what a getPricing(model) call leaves behind in the source and its fetcher
recordCall(model, fetched, call) ==
  /\ fetcherCache' = fetched.cache
  /\ fetchCount' = fetchCount + fetched.fetched
  /\ results' = [results EXCEPT ![model] = Append(@, call.outcome)]
  /\ resolveCount' = [resolveCount EXCEPT ![model] = @ + call.resolved]
  /\ warnings' = warnings \o call.warned

\* the effect of a getPricing(model) call on the source and its fetcher
GetPricing(model) ==
  recordCall(model, fetchModelPricing(fetcherCache, sourceAvailable), getPricing(model))

RECURSIVE CallsIn(_, _)
CallsIn(res, S) ==
  IF S = {} THEN 0
  ELSE LET m == CHOOSE x \in S : TRUE
       IN Len(res[m]) + CallsIn(res, S \ {m})

\* getPricing calls made so far
TotalCalls == CallsIn(results, DOMAIN results)

\* a direct client of the source asks for the pricing of a model
CallGetPricing ==
  /\ entry = "api"
  /\ TotalCalls < MaxCalls
  /\ \E model \in ModelNames : GetPricing(model)
  /\ UNCHANGED <<sourceVars, runVars, cmdVars, buildVars, created, disposeCount>>

\* CodexPricingSource[Symbol.dispose], by the caller of buildMonthlyReport
\* once the build is over
Dispose ==
  /\ entry = "monthly"
  /\ buildPc \in {"returned", "rejected"}
  /\ disposeCount = 0
  /\ disposeCount' = disposeCount + 1
  /\ UNCHANGED <<sourceVars, callVars, runVars, cmdVars, buildVars, created>>

\* ------------------------------------------------------------------------
\* Number arithmetic: IEEE 754 binary64, round to nearest, ties to even.
\* Only non-negative values arise: token counts, rates and their products.
\* ------------------------------------------------------------------------
\* the binary digits of the significand of a Number
SignificandBits == 53
\* the significand is held as digits to the base 2^DigitBits, most
\* significant first, so that every step stays within 31 bits
DigitBits == 11
Base == 2 ^ DigitBits
SignificandDigits == (SignificandBits + DigitBits - 1) \div DigitBits

Zeros(k) == [i \in 1..k |-> 0]

\* the Number 0; any other Number is m * 2^e with 2^52 <= m < 2^53
Zero == [m |-> Zeros(SignificandDigits), e |-> 0]

Max(a, b) == IF a >= b THEN a ELSE b
Min(a, b) == IF a <= b THEN a ELSE b

\* a natural number below 2^31 as digits
DigitsOf(v) == <<v \div (Base * Base), (v \div Base) % Base, v % Base>>

StripZeros(ds) ==
  IF \A i \in 1..Len(ds) : ds[i] = 0 THEN <<>>
  ELSE SubSeq(ds, CHOOSE i \in 1..Len(ds) : ds[i] # 0 /\ \A j \in 1..(i - 1) : ds[j] = 0,
              Len(ds))

PadLeft(ds, n) == Zeros(n - Len(ds)) \o ds

\* the digit at position i, 0 outside the number
DigitAt(ds, i) == IF i >= 1 /\ i <= Len(ds) THEN ds[i] ELSE 0

\* the number of binary digits of a number without leading zero digits
BitLength(ds) ==
  IF ds = <<>> THEN 0
  ELSE DigitBits * (Len(ds) - 1)
       + CHOOSE w \in 1..DigitBits : ds[1] >= 2 ^ (w - 1) /\ ds[1] < 2 ^ w

\* ds * 2^b for b < DigitBits: no carry runs between the digits
ShiftBitsLeft(ds, b) ==
  [j \in 1..(Len(ds) + 1) |->
     (DigitAt(ds, j - 1) % 2 ^ (DigitBits - b)) * 2 ^ b
     + DigitAt(ds, j) \div 2 ^ (DigitBits - b)]

ShiftLeft(ds, s) == ShiftBitsLeft(ds, s % DigitBits) \o Zeros(s \div DigitBits)

ShiftBitsRight(ds, b) ==
  [j \in 1..Len(ds) |->
     (DigitAt(ds, j - 1) % 2 ^ b) * 2 ^ (DigitBits - b) + ds[j] \div 2 ^ b]

\* ds \div 2^s
ShiftRight(ds, s) ==
  ShiftBitsRight(SubSeq(ds, 1, Len(ds) - s \div DigitBits), s % DigitBits)

\* ds % 2^s is not 0
LowBitsSet(ds, s) ==
  \/ \E i \in (Len(ds) - s \div DigitBits + 1)..Len(ds) : ds[i] # 0
  \/ DigitAt(ds, Len(ds) - s \div DigitBits) % 2 ^ (s % DigitBits) # 0

\* the binary digit of weight 2^p
BitAt(ds, p) == (ds[Len(ds) - p \div DigitBits] \div 2 ^ (p % DigitBits)) % 2

\* ds + 1: the digits after the last one below Base - 1 turn over
Increment(ds) ==
  IF \A i \in 1..Len(ds) : ds[i] = Base - 1 THEN <<1>> \o Zeros(Len(ds))
  ELSE [i \in 1..Len(ds) |->
          IF \E j \in (i + 1)..Len(ds) : ds[j] # Base - 1 THEN ds[i]
          ELSE (ds[i] + 1) % Base]

\* the last SignificandDigits digits
Significand(ds) ==
  SubSeq(PadLeft(ds, SignificandDigits), Max(Len(ds), SignificandDigits) - SignificandDigits + 1,
         Max(Len(ds), SignificandDigits))

\* a significand that has grown to 2^SignificandBits is halved
Renormalized(ds, e) ==
  IF BitLength(StripZeros(ds)) > SignificandBits
  THEN [m |-> Significand(ShiftRight(ds, 1)), e |-> e + 1]
  ELSE [m |-> Significand(ds), e |-> e]

RoundUpIf(ds, e, up) == IF up THEN Renormalized(Increment(ds), e) ELSE [m |-> Significand(ds), e |-> e]

\* ds * 2^e cut to SignificandBits binary digits: r digits are dropped
Cut(ds, e, sticky, r) ==
  RoundUpIf(ShiftRight(ds, r), e + r,
            /\ BitAt(ds, r - 1) = 1
            /\ \/ BitAt(ds, r) = 1
               \/ sticky
               \/ LowBitsSet(ds, r - 1))

Normal(ds, e, sticky, len) ==
  IF len = 0 THEN Zero
  ELSE IF len <= SignificandBits
  THEN [m |-> Significand(ShiftLeft(ds, SignificandBits - len)),
        e |-> e - (SignificandBits - len)]
  ELSE Cut(ds, e, sticky, len - SignificandBits)

\* round to nearest, ties to even: the Number next to ds * 2^e (plus less
\* than 2^e when sticky)
Rounded(ds, e, sticky) == Normal(StripZeros(ds), e, sticky, BitLength(StripZeros(ds)))

RECURSIVE LongDiv(_, _, _, _)
\* the next digits of a quotient, one digit per step
LongDiv(rem, d, steps, q) ==
  IF steps = 0 THEN [q |-> q, rem |-> rem]
  ELSE LongDiv((rem * Base) % d, d, steps - 1, Append(q, (rem * Base) \div d))

QuotientDigits == (SignificandBits + 2 * DigitBits) \div DigitBits + 1

RoundedQuotient(qr, e) == Rounded(qr.q, e, qr.rem # 0)

\* n / d for natural numbers n and d, d below 2^20
Divide(n, d) ==
  IF n = 0 THEN Zero
  ELSE RoundedQuotient(LongDiv(n % d, d, QuotientDigits, DigitsOf(n \div d)),
                       - QuotientDigits * DigitBits)

RECURSIVE Product(_, _, _, _, _)
ProductStep(ds, i, k, v, acc) == Product(ds, i - 1, k, v \div Base, <<v % Base>> \o acc)
\* ds * k, digit by digit from the right
Product(ds, i, k, carry, acc) ==
  IF i = 0 THEN DigitsOf(carry) \o acc
  ELSE ProductStep(ds, i, k, ds[i] * k + carry, acc)

TwoPower(k) == CHOOSE t \in 0..30 : k % 2 ^ t = 0 /\ k % 2 ^ (t + 1) # 0

\* x * k for a natural number k whose odd part is below 2^20
Times(x, k) ==
  IF k = 0 THEN Zero
  ELSE Rounded(Product(x.m, Len(x.m), k \div 2 ^ TwoPower(k), 0, <<>>),
               x.e + TwoPower(k), FALSE)

\* the carry into digit i of a + b
CarryInto(a, b, i) ==
  \E j \in (i + 1)..Len(a) :
    /\ a[j] + b[j] >= Base
    /\ \A t \in (i + 1)..(j - 1) : a[t] + b[t] = Base - 1

SumDigits(a, b) ==
  [i \in 1..(Len(a) + 1) |->
     (DigitAt(a, i - 1) + DigitAt(b, i - 1)
      + IF CarryInto(a, b, i - 1) THEN 1 ELSE 0) % Base]

AddAligned(a, b, e) ==
  Rounded(SumDigits(PadLeft(a, Max(Len(a), Len(b))), PadLeft(b, Max(Len(a), Len(b)))),
          e, FALSE)

\* x + y
Plus(x, y) ==
  IF x = Zero THEN y
  ELSE IF y = Zero THEN x
  ELSE AddAligned(ShiftLeft(x.m, x.e - Min(x.e, y.e)), ShiftLeft(y.m, y.e - Min(x.e, y.e)),
                  Min(x.e, y.e))

\* ------------------------------------------------------------------------
\* date-utils.ts and token-utils.ts
\* ------------------------------------------------------------------------
\* calendar day of a timestamp (the target timezone is UTC)
toDateKey(timestamp) == timestamp \div 100

\* calendar month of a timestamp
toMonthKey(timestamp) == timestamp \div 10000

isWithinRange(dateKey, since, until) ==
  /\ since # ABSENT => dateKey >= since
  /\ until # ABSENT => dateKey <= until

createEmptyUsage ==
  [inputTokens |-> 0, cachedInputTokens |-> 0, outputTokens |-> 0,
   reasoningOutputTokens |-> 0, totalTokens |-> 0]

\* addUsage that keeps the output tokens of the latest delta only
addUsage_LatestOutput(target, delta) ==
  [target EXCEPT !.inputTokens = @ + delta.inputTokens,
                 !.cachedInputTokens = @ + delta.cachedInputTokens,
                 !.outputTokens = delta.outputTokens,
                 !.reasoningOutputTokens = @ + delta.reasoningOutputTokens,
                 !.totalTokens = @ + delta.totalTokens]

addUsage(target, delta) ==
  [target EXCEPT !.inputTokens = @ + delta.inputTokens,
                 !.cachedInputTokens = @ + delta.cachedInputTokens,
                 !.outputTokens = @ + delta.outputTokens,
                 !.reasoningOutputTokens = @ + delta.reasoningOutputTokens,
                 !.totalTokens = @ + delta.totalTokens]

\* USD cost as a Number: non-cached input at the input rate, cached input at
\* the cached rate, output at the output rate, each as tokens / 1e6 * rate
calculateCostUSD(usage, pricing) ==
  Plus(Plus(Times(Divide(usage.inputTokens - usage.cachedInputTokens, MILLION),
                  pricing.inputCostPerMToken),
            Times(Divide(usage.cachedInputTokens, MILLION),
                  pricing.cachedInputCostPerMToken)),
       Times(Divide(usage.outputTokens, MILLION), pricing.outputCostPerMToken))

\* ------------------------------------------------------------------------
\* daily-report.ts, monthly-report.ts, session-report.ts: accumulation
\* ------------------------------------------------------------------------
createSummary(kind, key, initialTimestamp) ==
  [key |-> key,
   firstTimestamp |-> initialTimestamp,
   lastTimestamp |-> IF kind = "session" THEN initialTimestamp ELSE ABSENT,
   inputTokens |-> 0, cachedInputTokens |-> 0, outputTokens |-> 0,
   reasoningOutputTokens |-> 0, totalTokens |-> 0,
   costUSD |-> Zero,
   models |-> <<>>]

\* skipEvent that applies the upper end of the range one day early
skipEvent_UntilExclusive(kind, event, since, until) ==
  \/ kind = "session" /\ Trim(event.sessionId) = <<>>
  \/ ~event.model.set
  \/ Trim(event.model.value) = <<>>
  \/ ~isWithinRange(toDateKey(event.timestamp), since, until)
  \/ until # ABSENT /\ toDateKey(event.timestamp) = until

\* skipEvent that lets a blank model name through
skipEvent_BlankCounts(kind, event, since, until) ==
  \/ kind = "session" /\ Trim(event.sessionId) = <<>>
  \/ ~event.model.set
  \/ ~isWithinRange(toDateKey(event.timestamp), since, until)

\* the `continue` conditions at the head of the loop body
skipEvent(kind, event, since, until) ==
  \/ kind = "session" /\ Trim(event.sessionId) = <<>>
  \/ ~event.model.set
  \/ Trim(event.model.value) = <<>>
  \/ ~isWithinRange(toDateKey(event.timestamp), since, until)

groupKey(kind, event) ==
  CASE kind = "daily" -> toDateKey(event.timestamp)
    [] kind = "monthly" -> toMonthKey(event.timestamp)
    [] OTHER -> Trim(event.sessionId)

\* position of the summary with this key in the Map, 0 when there is none
SummaryIndex(sums, key) ==
  IF \E i \in 1..Len(sums) : sums[i].key = key
  THEN CHOOSE i \in 1..Len(sums) : sums[i].key = key
  ELSE 0

\* position of the usage of this model in summary.models, 0 when there is none
ModelIndex(models, modelName) ==
  IF \E i \in 1..Len(models) : models[i].model = modelName
  THEN CHOOSE i \in 1..Len(models) : models[i].model = modelName
  ELSE 0

newModelUsage(modelName) ==
  [model |-> modelName, inputTokens |-> 0, cachedInputTokens |-> 0,
   outputTokens |-> 0, reasoningOutputTokens |-> 0, totalTokens |-> 0,
   isFallback |-> FALSE]

\* addModelUsage that starts the usage of the model anew with every event
addModelUsage_StartsAnew(models, modelName, event) ==
  LET found == ModelIndex(models, modelName)
      models0 == IF found = 0 THEN Append(models, newModelUsage(modelName)) ELSE models
      q == IF found = 0 THEN Len(models0) ELSE found
      modelUsage == addUsage(newModelUsage(modelName), event)
  IN [models0 EXCEPT ![q] =
        IF event.isFallbackModel THEN [modelUsage EXCEPT !.isFallback = TRUE]
        ELSE modelUsage]

\* addModelUsage that copies the marker of the latest event of the model
addModelUsage_MarkerOfLatest(models, modelName, event) ==
  LET found == ModelIndex(models, modelName)
      models0 == IF found = 0 THEN Append(models, newModelUsage(modelName)) ELSE models
      q == IF found = 0 THEN Len(models0) ELSE found
      modelUsage == addUsage(models0[q], event)
  IN [models0 EXCEPT ![q] = [modelUsage EXCEPT !.isFallback = event.isFallbackModel]]

\* summary.models after the event is added to the usage of its model
addModelUsage(models, modelName, event) ==
  LET found == ModelIndex(models, modelName)
      models0 == IF found = 0 THEN Append(models, newModelUsage(modelName)) ELSE models
      q == IF found = 0 THEN Len(models0) ELSE found
      modelUsage == addUsage(models0[q], event)
  IN [models0 EXCEPT ![q] =
        IF event.isFallbackModel THEN [modelUsage EXCEPT !.isFallback = TRUE]
        ELSE modelUsage]

\* trackLastTimestamp that keeps the timestamp of the latest event consumed
trackLastTimestamp_LatestConsumed(kind, summary, event) ==
  IF kind = "session"
  THEN [summary EXCEPT !.lastTimestamp = event.timestamp]
  ELSE summary

\* session-report.ts 76-78
trackLastTimestamp(kind, summary, event) ==
  IF kind = "session" /\ event.timestamp > summary.lastTimestamp
  THEN [summary EXCEPT !.lastTimestamp = event.timestamp]
  ELSE summary

\* one pass of the loop body for an event that is not skipped
accumulateEvent(kind, sums, event) ==
  LET modelName == Trim(event.model.value)
      key == groupKey(kind, event)
      found == SummaryIndex(sums, key)
      sums0 == IF found = 0
               THEN Append(sums, createSummary(kind, key, event.timestamp))
               ELSE sums
      p == IF found = 0 THEN Len(sums0) ELSE found
      summary == trackLastTimestamp(kind, addUsage(sums0[p], event), event)
  IN [sums0 EXCEPT ![p] =
        [summary EXCEPT !.models = addModelUsage(summary.models, modelName, event)]]

\* AddAll into an array instead of a Set: a name can be listed twice
AddAll_Array(set, names) == set \o names

RECURSIVE AddAll(_, _)
\* Set.add of every element of a sequence, keeping insertion order
AddAll(set, names) ==
  IF names = <<>> THEN set
  ELSE AddAll(IF \E i \in 1..Len(set) : set[i] = Head(names) THEN set
              ELSE Append(set, Head(names)),
              Tail(names))

RECURSIVE collectUniqueModels(_, _)
collectUniqueModels(set, sums) ==
  IF sums = <<>> THEN set
  ELSE collectUniqueModels(
         AddAll(set, [i \in 1..Len(Head(sums).models) |-> Head(sums).models[i].model]),
         Tail(sums))

\* ------------------------------------------------------------------------
\* report rows
\* ------------------------------------------------------------------------
sortKey(kind, summary) ==
  IF kind = "session" THEN summary.lastTimestamp ELSE summary.key

RECURSIVE InsertSorted(_, _, _)
InsertSorted(kind, sorted, summary) ==
  IF sorted = <<>> THEN <<summary>>
  ELSE IF sortKey(kind, sorted[Len(sorted)]) <= sortKey(kind, summary)
  THEN Append(sorted, summary)
  ELSE Append(InsertSorted(kind, SubSeq(sorted, 1, Len(sorted) - 1), summary),
              sorted[Len(sorted)])

\* sortSummaries that leaves the summaries in the order of the Map
sortSummaries_MapOrder(kind, sums) == sums

RECURSIVE sortSummaries(_, _)
\* Array.prototype.sort with the ascending comparator: a stable sort
sortSummaries(kind, sums) ==
  IF sums = <<>> THEN <<>>
  ELSE InsertSorted(kind, sortSummaries(kind, SubSeq(sums, 1, Len(sums) - 1)),
                    sums[Len(sums)])

\* modelPricing.get(modelName)
pricingOf(pricings, modelName) ==
  IF \E i \in 1..Len(pricings) : pricings[i].model = modelName
  THEN [found |-> TRUE,
        pricing |-> pricings[CHOOSE i \in 1..Len(pricings) :
                               pricings[i].model = modelName].pricing]
  ELSE [found |-> FALSE]

\* summaryCost that stops after the first model of the summary
summaryCost_FirstModelOnly(models, pricings) ==
  IF models = <<>> THEN Zero
  ELSE LET p == pricingOf(pricings, Head(models).model)
       IN IF p.found THEN calculateCostUSD(Head(models), p.pricing) ELSE Zero

\* cost += calculateCostUSD(usage, pricing), unless the model has no pricing
addCost(cost, usage, p) ==
  IF p.found THEN Plus(cost, calculateCostUSD(usage, p.pricing)) ELSE cost

RECURSIVE summaryCost(_, _)
\* the loop over summary.models from cost = 0, in the order of the Map
summaryCost(models, pricings) ==
  IF models = <<>> THEN Zero
  ELSE addCost(summaryCost(SubSeq(models, 1, Len(models) - 1), pricings),
               models[Len(models)], pricingOf(pricings, models[Len(models)].model))

NoResolution == "undefined"

rowModel(usage, pricings) ==
  LET p == pricingOf(pricings, usage.model)
  IN [model |-> usage.model,
      inputTokens |-> usage.inputTokens,
      cachedInputTokens |-> usage.cachedInputTokens,
      outputTokens |-> usage.outputTokens,
      reasoningOutputTokens |-> usage.reasoningOutputTokens,
      totalTokens |-> usage.totalTokens,
      isFallback |-> usage.isFallback,
      pricingResolution |-> IF p.found THEN p.pricing.pricingResolution
                            ELSE NoResolution,
      pricingModel |-> IF p.found THEN p.pricing.pricingModel ELSE <<>>]

\* lastIndexOfSlash that finds the first '/' (indexOf)
lastIndexOfSlash_First(s) ==
  IF \E i \in 1..Len(s) : s[i] = "/"
  THEN CHOOSE i \in 1..Len(s) : s[i] = "/" /\ \A j \in 1..(i - 1) : s[j] # "/"
  ELSE 0

\* String.prototype.lastIndexOf('/'), 1-based, 0 when there is none
lastIndexOfSlash(s) ==
  IF \E i \in 1..Len(s) : s[i] = "/"
  THEN CHOOSE i \in 1..Len(s) : s[i] = "/" /\ \A j \in (i + 1)..Len(s) : s[j] # "/"
  ELSE 0

directoryOf(sessionId) ==
  LET separatorIndex == lastIndexOfSlash(sessionId)
  IN IF separatorIndex > 0 THEN SubSeq(sessionId, 1, separatorIndex - 1) ELSE <<>>

sessionFileOf(sessionId) ==
  LET separatorIndex == lastIndexOfSlash(sessionId)
  IN IF separatorIndex > 0 THEN SubSeq(sessionId, separatorIndex + 1, Len(sessionId))
     ELSE sessionId

buildRow(kind, summary, pricings) ==
  [key |-> summary.key,
   lastActivity |-> summary.lastTimestamp,
   sessionFile |-> IF kind = "session" THEN sessionFileOf(summary.key) ELSE <<>>,
   directory |-> IF kind = "session" THEN directoryOf(summary.key) ELSE <<>>,
   inputTokens |-> summary.inputTokens,
   cachedInputTokens |-> summary.cachedInputTokens,
   outputTokens |-> summary.outputTokens,
   reasoningOutputTokens |-> summary.reasoningOutputTokens,
   totalTokens |-> summary.totalTokens,
   costUSD |-> summaryCost(summary.models, pricings),
   models |-> [i \in 1..Len(summary.models) |-> rowModel(summary.models[i], pricings)]]

\* ------------------------------------------------------------------------
\* buildDailyReport / buildMonthlyReport / buildSessionReport, step by step
\* ------------------------------------------------------------------------
\* the loop over the events: one event per step
Accumulate ==
  /\ buildPc = "accumulate"
  /\ idx < Len(events)
  /\ idx' = idx + 1
  /\ summaries' = IF skipEvent(entry, events[idx + 1], range.since, range.until)
                  THEN summaries
                  ELSE accumulateEvent(entry, summaries, events[idx + 1])
  /\ UNCHANGED <<buildPc, uniqueModels, modelPricing, rows, buildError>>
  /\ UNCHANGED <<sourceVars, callVars, runVars, cmdVars, created, disposeCount>>

\* after the loop: the early return of the session builder, else the set of
\* the distinct models of all summaries
CollectModels ==
  /\ buildPc = "accumulate"
  /\ idx = Len(events)
  /\ IF entry = "session" /\ Len(summaries) = 0
     THEN /\ buildPc' = "returned"
          /\ UNCHANGED uniqueModels
     ELSE /\ buildPc' = "resolve"
          /\ uniqueModels' = collectUniqueModels(<<>>, summaries)
  /\ UNCHANGED <<idx, summaries, modelPricing, rows, buildError>>
  /\ UNCHANGED <<sourceVars, callVars, runVars, cmdVars, created, disposeCount>>

\* resolveStep that catches the error and goes on to the next model
resolveStep_SkipFailed(modelName, outcome) ==
  IF outcome.tag = "throw"
  THEN [buildPc |-> "resolve", buildError |-> buildError,
        modelPricing |-> Append(modelPricing, [model |-> <<>>])]
  ELSE [buildPc |-> "resolve", buildError |-> buildError,
        modelPricing |-> Append(modelPricing,
                                [model |-> modelName, pricing |-> outcome.value])]

\* modelPricing.set(modelName, await pricingSource.getPricing(modelName)):
\* a failed call rejects the builder's promise
resolveStep(modelName, outcome) ==
  IF outcome.tag = "throw"
  THEN [buildPc |-> "rejected", buildError |-> outcome.error,
        modelPricing |-> modelPricing]
  ELSE [buildPc |-> "resolve", buildError |-> buildError,
        modelPricing |-> Append(modelPricing,
                                [model |-> modelName, pricing |-> outcome.value])]

ResolveNext ==
  /\ buildPc = "resolve"
  /\ Len(modelPricing) < Len(uniqueModels)
  /\ LET modelName == uniqueModels[Len(modelPricing) + 1]
         step == resolveStep(modelName, getPricing(modelName).outcome)
     IN /\ GetPricing(modelName)
        /\ buildPc' = step.buildPc
        /\ buildError' = step.buildError
        /\ modelPricing' = step.modelPricing
  /\ UNCHANGED <<idx, summaries, uniqueModels, rows>>
  /\ UNCHANGED <<sourceVars, runVars, cmdVars, created, disposeCount>>

\* sort the summaries, price them and return the rows
EmitRows ==
  /\ buildPc = "resolve"
  /\ Len(modelPricing) = Len(uniqueModels)
  /\ LET sortedSummaries == sortSummaries(entry, summaries)
     IN /\ rows' = [i \in 1..Len(sortedSummaries) |->
                      buildRow(entry, sortedSummaries[i], modelPricing)]
        /\ summaries' = [i \in 1..Len(summaries) |->
                           [summaries[i] EXCEPT
                              !.costUSD = summaryCost(summaries[i].models,
                                                      modelPricing)]]
  /\ buildPc' = "returned"
  /\ UNCHANGED <<idx, uniqueModels, modelPricing, buildError>>
  /\ UNCHANGED <<sourceVars, callVars, runVars, cmdVars, created, disposeCount>>

\* ------------------------------------------------------------------------
\* commands/daily.ts and commands/session.ts: run(ctx)
\* ------------------------------------------------------------------------
\* up to the construction of the pricing source: without events the command
\* logs and returns before it creates one (ctx.values.json, an input of the
\* run, is drawn where the run first depends on it)
CmdStart ==
  /\ entry \in {"daily", "session"}
  /\ cmdPc = "start"
  /\ IF Len(events) = 0
     THEN /\ \E jsonOutput \in BOOLEAN :
               output' = IF jsonOutput THEN "json-empty" ELSE "no-data"
          /\ cmdPc' = "done"
          /\ UNCHANGED <<created, buildPc>>
     ELSE /\ created' = TRUE
          /\ buildPc' = "accumulate"
          /\ cmdPc' = "building"
          /\ UNCHANGED output
  /\ UNCHANGED exitPath
  /\ UNCHANGED <<idx, summaries, uniqueModels, modelPricing, rows, buildError>>
  /\ UNCHANGED <<sourceVars, callVars, runVars, disposeCount>>

\* the body of the try block after the awaited build
afterBuild(pc, builtRows, jsonOutput) ==
  IF pc = "rejected" THEN [exitPath |-> "error", output |-> "none"]
  ELSE IF Len(builtRows) = 0
  THEN [exitPath |-> "empty-rows",
        output |-> IF jsonOutput THEN "json-empty" ELSE "no-data-for-filters"]
  ELSE IF jsonOutput THEN [exitPath |-> "json", output |-> "json"]
  ELSE [exitPath |-> "table", output |-> "table"]

CmdAfterBuild ==
  /\ cmdPc = "building"
  /\ buildPc \in {"returned", "rejected"}
  /\ \E jsonOutput \in BOOLEAN :
       LET after == afterBuild(buildPc, rows, jsonOutput)
       IN /\ exitPath' = after.exitPath
          /\ output' = after.output
  /\ cmdPc' = "finally"
  /\ UNCHANGED <<sourceVars, callVars, runVars, buildVars, created, disposeCount>>

\* a dispose at the end of the try block instead of in a finally block
finallyBlock_NotOnError(path, disposed) ==
  [disposeCount |-> IF path = "error" THEN disposed ELSE disposed + 1,
   cmdPc |-> IF path = "error" THEN "failed" ELSE "done"]

\* finally { pricingSource[Symbol.dispose]() }
finallyBlock(path, disposed) ==
  [disposeCount |-> disposed + 1,
   cmdPc |-> IF path = "error" THEN "failed" ELSE "done"]

CmdFinally ==
  /\ cmdPc = "finally"
  /\ LET fin == finallyBlock(exitPath, disposeCount)
     IN /\ disposeCount' = fin.disposeCount
        /\ cmdPc' = fin.cmdPc
  /\ UNCHANGED <<exitPath, output>>
  /\ UNCHANGED <<sourceVars, callVars, runVars, buildVars, created>>

\* ------------------------------------------------------------------------
\* Specification
\* ------------------------------------------------------------------------
InitCalls ==
  /\ fetcherCache = "none"
  /\ fetchCount = 0
  /\ disposeCount = 0
  /\ results = [m \in ModelNames |-> <<>>]
  /\ resolveCount = [m \in ModelNames |-> 0]
  /\ warnings = <<>>

InitBuild ==
  /\ idx = 0
  /\ summaries = <<>>
  /\ uniqueModels = <<>>
  /\ modelPricing = <<>>
  /\ rows = <<>>
  /\ buildError = NoError
  /\ exitPath = "none"
  /\ output = "none"

\* a CodexPricingSource constructed over any price list, used directly
InitApi ==
  /\ entry = "api"
  /\ \/ sourceAvailable = TRUE /\ pricingMap \in PriceLists
     \/ sourceAvailable = FALSE /\ pricingMap = EmptyPriceList
  /\ allowFuzzyPricing \in BOOLEAN
  /\ unknownModelFallback \in FallbackOptions
  /\ created = TRUE
  /\ events = <<>>
  /\ range = [since |-> ABSENT, until |-> ABSENT]
  /\ cmdPc = "none"
  /\ buildPc = "idle"

\* a report run: the daily or session command about to run, or
\* buildMonthlyReport called with a constructed source
InitReport ==
  /\ entry \in {"daily", "monthly", "session"}
  /\ \E source \in ReportSources :
       /\ pricingMap = source.pricingMap
       /\ sourceAvailable = source.available
       /\ allowFuzzyPricing = source.allowFuzzy
       /\ unknownModelFallback = source.fallback
  /\ events \in EventLists
  /\ range \in DateRanges
  /\ created = (entry = "monthly")
  /\ cmdPc = IF entry = "monthly" THEN "none" ELSE "start"
  /\ buildPc = IF entry = "monthly" THEN "accumulate" ELSE "idle"

InitPricing == InitApi /\ InitCalls /\ InitBuild

InitRun == InitReport /\ InitCalls /\ InitBuild

Init == InitPricing \/ InitRun

NextPricing == CallGetPricing

NextReport ==
  \/ Accumulate
  \/ CollectModels
  \/ ResolveNext
  \/ EmitRows
  \/ Dispose
  \/ CmdStart
  \/ CmdAfterBuild
  \/ CmdFinally

Next == NextPricing \/ NextReport

\* buildSessionReport called with a constructed source and one event of
\* any session id
InitSessionIds ==
  /\ entry = "session"
  /\ pricingMap = [k \in {S_gpt5} |-> PriceRecord(k, "full")]
  /\ sourceAvailable = TRUE
  /\ allowFuzzyPricing = FALSE
  /\ unknownModelFallback = NoFallback
  /\ events \in {<<Event(91103, id, Model(S_gpt5), FALSE, 10, 2, 5, 0)>> :
                   id \in SessionIds}
  /\ range = [since |-> ABSENT, until |-> ABSENT]
  /\ created = TRUE
  /\ cmdPc = "none"
  /\ buildPc = "accumulate"

InitSession == InitSessionIds /\ InitCalls /\ InitBuild

\* the steps of a report builder
NextBuild ==
  \/ Accumulate
  \/ CollectModels
  \/ ResolveNext
  \/ EmitRows

\* direct use of a pricing source and report runs
Spec == Init /\ [][Next]_vars

\* direct use of a pricing source only
SpecPricing == InitPricing /\ [][NextPricing]_vars

\* report runs only
SpecReport == InitRun /\ [][NextReport]_vars

\* the session builder over session ids of every shape
SpecSessionIds == InitSession /\ [][NextBuild]_vars

\* ------------------------------------------------------------------------
\* Properties of getPricing
\* ------------------------------------------------------------------------
\* the outcomes of the getPricing(m) calls made so far
Outcomes(m) == {results[m][i] : i \in 1..Len(results[m])}

S_openai == <<"o", "p", "e", "n", "a", "i", "/">>
S_azure == <<"a", "z", "u", "r", "e", "/">>
S_openrouter == <<"o", "p", "e", "n", "r", "o", "u", "t", "e", "r", "/">>

\* the four keys a name stands for, in priority order
KeysOf(name) ==
  <<name, S_openai \o name, S_azure \o name, S_openrouter \o S_openai \o name>>

\* the candidates of a name in priority order: its own keys tagged direct,
\* then the keys of its alias target tagged alias
PriorityOf(name) ==
  [i \in 1..4 |-> [key |-> KeysOf(name)[i], tag |-> "direct"]]
  \o (IF name = S_gpt5codex
      THEN [i \in 1..4 |-> [key |-> KeysOf(S_gpt5)[i], tag |-> "alias"]]
      ELSE <<>>)

PresentOf(name) ==
  {i \in 1..Len(PriorityOf(name)) : PriorityOf(name)[i].key \in DOMAIN pricingMap}

\* the name has a direct or alias candidate in the price list
Listed(name) == PresentOf(name) # {}

\* the first candidate of the name that the price list contains
WinnerOf(name) ==
  PriorityOf(name)[CHOOSE i \in PresentOf(name) : \A j \in PresentOf(name) : i <= j]

\* the keys of the price list that match the name by case-insensitive
\* substring, in either direction
SubstringKeys(name) ==
  {k \in DOMAIN pricingMap :
     \/ Includes(ToLower(k), ToLower(name))
     \/ Includes(ToLower(name), ToLower(k))}

Complete(rec) ==
  rec.input_cost_per_token # ABSENT /\ rec.output_cost_per_token # ABSENT

\* the ModelPricing of the record under a key, with a resolution tag
Priced(key, tag) ==
  LET rec == pricingMap[key]
  IN [inputCostPerMToken |-> rec.input_cost_per_token * 1000000,
      cachedInputCostPerMToken |->
        (IF rec.cache_read_input_token_cost = ABSENT
         THEN rec.input_cost_per_token
         ELSE rec.cache_read_input_token_cost) * 1000000,
      outputCostPerMToken |-> rec.output_cost_per_token * 1000000,
      pricingResolution |-> tag,
      pricingModel |-> key]

\* what a call for model m yields once key `key` is matched with tag `tag`:
\* the priced record, or the incomplete-pricing error when the record lacks a
\* required cost
MatchedOutcome(m, key, tag) ==
  IF Complete(pricingMap[key])
  THEN [tag |-> "return", value |-> Priced(key, tag)]
  ELSE [tag |-> "throw", error |-> [type |-> "IncompletePricing", model |-> m]]

\* direct, alias and, when enabled, fuzzy resolution of the name find nothing
Unresolved(name) ==
  /\ ~Listed(name)
  /\ allowFuzzyPricing => SubstringKeys(name) = {}

\* the configured fallback name, trimmed; <<>> when none is configured
FallbackName ==
  IF unknownModelFallback.set THEN Trim(unknownModelFallback.value) ELSE <<>>

\* C1: the candidates of a name are tried in one fixed priority order (the
\* name, openai/name, azure/name, openrouter/openai/name as direct, then the
\* same four built from the alias target as alias) and the first candidate
\* the price list contains decides every call for that name: the call
\* returns that key's record tagged with that candidate's tier (or the
\* incomplete-pricing error of that record), so a direct candidate always
\* wins over the alias target.
C1_FirstCandidateWins ==
  \A m \in ModelNames : \A o \in Outcomes(m) :
    (sourceAvailable /\ Listed(m)) =>
      o = MatchedOutcome(m, WinnerOf(m).key, WinnerOf(m).tag)

C1_Witness ==
  /\ KeysOf(S_gpt5codex)[3] \in DOMAIN pricingMap
  /\ S_gpt5 \in DOMAIN pricingMap
  /\ \E o \in Outcomes(S_gpt5codex) :
       /\ o.tag = "return"
       /\ o.value.pricingResolution = "direct"
       /\ o.value.pricingModel = S_azure \o S_gpt5codex

\* C2: with fuzzy matching enabled and no direct or alias candidate in the
\* price list, exactly one substring-matching key makes the call succeed
\* tagged fuzzy with that key (or fail on that record being incomplete); two
\* or more matching keys make it fail with the ambiguity error that carries
\* every matching key, whatever fallback is configured; no matching key
\* makes the fuzzy tier fail, so that no fuzzy result and no ambiguity error
\* comes out.
C2_FuzzyTier ==
  \A m \in ModelNames : \A o \in Outcomes(m) :
    (sourceAvailable /\ allowFuzzyPricing /\ ~Listed(m)) =>
      LET keys == SubstringKeys(m)
      IN /\ Cardinality(keys) = 1 =>
              o = MatchedOutcome(m, CHOOSE k \in keys : TRUE, "fuzzy")
         /\ Cardinality(keys) >= 2 =>
              /\ o.tag = "throw"
              /\ o.error.type = "AmbiguousFuzzy"
              /\ o.error.model = m
              /\ o.error.candidates = keys
              /\ o.error.count = Cardinality(keys)
         /\ Cardinality(keys) = 0 =>
              /\ o.tag = "return" => o.value.pricingResolution = "fallback"
              /\ o.tag = "throw" => o.error.type # "AmbiguousFuzzy"

C2_Witness ==
  /\ allowFuzzyPricing
  /\ unknownModelFallback.set
  /\ DOMAIN pricingMap = {S_gpt5, S_azure \o S_gpt5codex}
  /\ \E o \in Outcomes(S_GPT5) :
       /\ o.tag = "throw"
       /\ o.error.type = "AmbiguousFuzzy"
       /\ o.error.candidates = {S_gpt5, S_azure \o S_gpt5codex}
  /\ \E o \in Outcomes(S_gpt53codex) :
       /\ o.tag = "return"
       /\ o.value.pricingResolution = "fuzzy"
       /\ o.value.pricingModel = S_gpt5

\* the events that contribute to the usage of a model in a group
Contributing(key, modelName) ==
  {i \in 1..Len(events) :
     /\ ~skipEvent(entry, events[i], range.since, range.until)
     /\ groupKey(entry, events[i]) = key
     /\ Trim(events[i].model.value) = modelName}

RECURSIVE SumOver(_, _)
\* the sum of f over a finite set of event positions
SumOver(f, S) ==
  IF S = {} THEN 0
  ELSE LET i == CHOOSE x \in S : TRUE IN f[i] + SumOver(f, S \ {i})

\* the usage of a row model is the sum of the usage of its events
RawCountsKept(key, rm) ==
  LET C == Contributing(key, rm.model)
  IN /\ C # {}
     /\ rm.inputTokens = SumOver([i \in C |-> events[i].inputTokens], C)
     /\ rm.cachedInputTokens = SumOver([i \in C |-> events[i].cachedInputTokens], C)
     /\ rm.outputTokens = SumOver([i \in C |-> events[i].outputTokens], C)
     /\ rm.reasoningOutputTokens =
          SumOver([i \in C |-> events[i].reasoningOutputTokens], C)
     /\ rm.totalTokens = SumOver([i \in C |-> events[i].totalTokens], C)

\* C3: when direct, alias and (if enabled) fuzzy resolution of the requested
\* name find nothing and the configured fallback name has a direct or alias
\* candidate in the price list, the call returns the rates of the fallback's
\* matched record, tagged fallback, with pricingModel the fallback's matched
\* key (or fails on that record being incomplete); a name that resolves by
\* direct, alias or fuzzy is never tagged fallback; and in the report the
\* usage priced by fallback is keyed under the original model name with the
\* raw token counts of its events.
C3_FallbackPricesUnknownModel ==
  /\ \A m \in ModelNames : \A o \in Outcomes(m) :
       /\ (sourceAvailable /\ Unresolved(m) /\ FallbackName # <<>>
             /\ Listed(FallbackName)) =>
            o = MatchedOutcome(m, WinnerOf(FallbackName).key, "fallback")
       /\ (o.tag = "return" /\ o.value.pricingResolution = "fallback") =>
            Unresolved(m)
  /\ \A r \in 1..Len(rows) : \A k \in 1..Len(rows[r].models) :
       LET rm == rows[r].models[k]
       IN rm.pricingResolution = "fallback" =>
            /\ Unresolved(rm.model)
            /\ rm.pricingModel = WinnerOf(FallbackName).key
            /\ RawCountsKept(rows[r].key, rm)

C3_Witness ==
  /\ buildPc = "returned"
  /\ \E r \in 1..Len(rows) : \E k \in 1..Len(rows[r].models) :
       /\ rows[r].models[k].pricingResolution = "fallback"
       /\ rows[r].models[k].model = S_gpt53codex
       /\ rows[r].models[k].pricingModel = S_gpt5
       /\ rows[r].models[k].inputTokens > 0
       /\ rows[r].costUSD # Zero

\* C4: the fuzzy tier serves the requested name only, and only when enabled:
\* with fuzzy matching disabled no call returns a fuzzy result or fails
\* with the ambiguity error; a fuzzy result is always a key that matches the
\* requested name by substring; and a fallback name without a direct or
\* alias candidate does not resolve, even if keys match it by substring and
\* fuzzy matching is enabled.
C4_FuzzyOnlyForRequestedName ==
  \A m \in ModelNames : \A o \in Outcomes(m) :
    /\ ~allowFuzzyPricing =>
         /\ o.tag = "return" => o.value.pricingResolution # "fuzzy"
         /\ o.tag = "throw" => o.error.type # "AmbiguousFuzzy"
    /\ (o.tag = "return" /\ o.value.pricingResolution = "fuzzy") =>
         o.value.pricingModel \in SubstringKeys(m)
    /\ (sourceAvailable /\ Unresolved(m) /\ FallbackName # <<>>
          /\ ~Listed(FallbackName) /\ SubstringKeys(FallbackName) # {}) =>
         /\ o.tag = "throw"
         /\ o.error.type = "FallbackUnresolved"

C4_Witness ==
  /\ allowFuzzyPricing
  /\ FallbackName = S_GPT5
  /\ S_gpt5 \in DOMAIN pricingMap
  /\ \E o \in Outcomes(S_o3) : o.tag = "throw" /\ o.error.type = "FallbackUnresolved"

\* C5: when the requested name is not resolved by direct, alias or (if
\* enabled) fuzzy and the configured fallback is not blank and has no direct
\* or alias candidate in the price list, the call fails with the
\* fallback-resolution error, which names the fallback and the requested
\* model and is not the pricing-not-found error.
C5_UnresolvableFallbackFails ==
  \A m \in ModelNames : \A o \in Outcomes(m) :
    (sourceAvailable /\ Unresolved(m) /\ FallbackName # <<>>
       /\ ~Listed(FallbackName)) =>
      o = [tag |-> "throw",
           error |-> [type |-> "FallbackUnresolved",
                      fallbackModel |-> FallbackName, model |-> m]]

C5_Witness ==
  /\ ~allowFuzzyPricing
  /\ FallbackName = S_gpt5codex
  /\ DOMAIN pricingMap = {S_o3}
  /\ \E o \in Outcomes(S_gpt53codex) :
       o.tag = "throw" /\ o.error.type = "FallbackUnresolved"

\* C6: when no tier resolves the name and no fallback is configured, or the
\* configured one is blank after trimming, the call fails with the
\* pricing-not-found error for that name, whose message carries the hint
\* that fuzzy matching is disabled exactly when allowFuzzyPricing is false.
C6_NotFoundSaysWhetherFuzzyWasOn ==
  \A m \in ModelNames : \A o \in Outcomes(m) :
    (sourceAvailable /\ Unresolved(m) /\ FallbackName = <<>>) =>
      o = [tag |-> "throw",
           error |-> [type |-> "PricingNotFound", model |-> m,
                      fuzzyHint |-> ~allowFuzzyPricing]]

C6_Witness ==
  /\ allowFuzzyPricing
  /\ unknownModelFallback = Fallback(S_blank)
  /\ pricingMap # EmptyPriceList
  /\ \E o \in Outcomes(S_o3) :
       o.tag = "throw" /\ o.error.type = "PricingNotFound" /\ ~o.error.fuzzyHint

\* the key a call for the name matches, by whichever tier matches first
MatchedKey(name) ==
  IF Listed(name) THEN {WinnerOf(name).key}
  ELSE IF allowFuzzyPricing /\ SubstringKeys(name) # {}
  THEN (IF Cardinality(SubstringKeys(name)) = 1 THEN SubstringKeys(name) ELSE {})
  ELSE IF FallbackName # <<>> /\ Listed(FallbackName)
  THEN {WinnerOf(FallbackName).key}
  ELSE {}

\* C7: whenever the record matched by a tier (direct, alias, fuzzy or
\* fallback) lacks input_cost_per_token or output_cost_per_token, the call
\* fails with the incomplete-pricing error naming the requested model: no
\* later tier and no fallback is tried, and no call ever returns a record
\* with a missing rate.
C7_IncompleteRecordIsAnError ==
  \A m \in ModelNames : \A o \in Outcomes(m) :
    /\ sourceAvailable =>
         \A key \in MatchedKey(m) :
           ~Complete(pricingMap[key]) =>
             o = [tag |-> "throw",
                  error |-> [type |-> "IncompletePricing", model |-> m]]
    /\ o.tag = "return" =>
         /\ o.value.inputCostPerMToken >= 0
         /\ o.value.outputCostPerMToken >= 0
         /\ o.value.cachedInputCostPerMToken >= 0

C7_Witness ==
  /\ FallbackName = S_gpt5
  /\ DOMAIN pricingMap = {S_gpt5}
  /\ pricingMap[S_gpt5].output_cost_per_token = ABSENT
  /\ pricingMap[S_gpt5].input_cost_per_token # ABSENT
  /\ \E o \in Outcomes(S_o3) :
       o.tag = "throw" /\ o.error.type = "IncompletePricing" /\ o.error.model = S_o3

\* ------------------------------------------------------------------------
\* Properties of the report builders and of the commands
\* ------------------------------------------------------------------------
\* C8: in the daily, monthly and session builder a getPricing failure for a
\* model of the summaries aborts the build: the builder rejects with that
\* error and returns no rows, the command prints no report, and a build
\* that returns rows has priced every model of every summary.
C8_PricingFailureAbortsBuild ==
  entry # "api" =>
    /\ \A m \in ModelNames : \A o \in Outcomes(m) :
         o.tag = "throw" =>
           /\ buildPc = "rejected"
           /\ buildError = o.error
           /\ rows = <<>>
           /\ output \notin {"json", "table"}
    /\ buildPc = "returned" =>
         /\ Len(rows) = Len(summaries)
         /\ \A r \in 1..Len(rows) : \A k \in 1..Len(rows[r].models) :
              rows[r].models[k].pricingResolution # NoResolution

C8_Witness ==
  /\ entry = "session"
  /\ buildPc = "rejected"
  /\ Len(summaries) = 1
  /\ Len(uniqueModels) = 2
  /\ Len(modelPricing) = 1
  /\ buildError.type = "PricingNotFound"
  /\ cmdPc = "failed"

\* C9: in the daily and session commands the pricing source, once
\* constructed, is disposed exactly once by the time the run is over, on
\* each way out of the try block (no rows, JSON output, rendered table, or
\* an error of the report build), never more than once and never before
\* the try block is left; a run that constructs no source disposes none.
C9_SourceDisposedOnEveryExit ==
  entry \in {"daily", "session"} =>
    /\ disposeCount <= 1
    /\ ~created => disposeCount = 0
    /\ (created /\ cmdPc \in {"done", "failed"}) => disposeCount = 1
    /\ disposeCount = 1 =>
         /\ cmdPc \in {"done", "failed"}
         /\ exitPath \in {"empty-rows", "json", "table", "error"}
    /\ cmdPc = "failed" <=> (exitPath = "error" /\ disposeCount = 1)

C9_Witness ==
  /\ entry = "daily"
  /\ created
  /\ cmdPc = "failed"
  /\ exitPath = "error"
  /\ buildError.type = "IncompletePricing"
  /\ disposeCount = 1

\* a call for the name logs the fallback warning
Warns(m) == Unresolved(m) /\ FallbackName # <<>> /\ Listed(FallbackName)

RECURSIVE WarningsOf(_)
\* the warnings logged by the calls made for a set of names
WarningsOf(S) ==
  IF S = {} THEN 0
  ELSE LET m == CHOOSE x \in S : TRUE
       IN (IF results[m] # <<>> /\ Warns(m) THEN Len(results[m]) ELSE 0)
          + WarningsOf(S \ {m})

\* C10 as stated: within one CodexPricingSource a name that has been
\* resolved is not resolved again by a later getPricing call for it, and the
\* raw price list is fetched at most once.
C10_NeverResolvedAgain ==
  /\ fetchCount <= 1
  /\ \A m \in ModelNames : resolveCount[m] <= 1

\* C10 amended: the source keeps no per-name cache: every getPricing call
\* for a name runs the tiers again (logging the fallback warning again) and
\* yields the outcome of the earlier calls for that name; it is the report
\* builders that call getPricing at most once per distinct model in one
\* build; the raw price list is fetched at most once per session.
C10_ResolvedAgainSameOutcome ==
  /\ fetchCount <= 1
  /\ \A m \in ModelNames :
       /\ Cardinality(Outcomes(m)) <= 1
       /\ sourceAvailable => resolveCount[m] = Len(results[m])
       /\ entry # "api" => Len(results[m]) <= 1
  /\ sourceAvailable => Len(warnings) = WarningsOf(ModelNames)

C10_Witness ==
  /\ entry = "api"
  /\ Len(results[S_o3]) = 2
  /\ resolveCount[S_o3] = 2
  /\ Len(warnings) = 2
  /\ fetchCount = 1
  /\ disposeCount = 0

\* ------------------------------------------------------------------------
\* Properties of the accumulation
\* ------------------------------------------------------------------------
RECURSIVE accumulateAll(_, _, _, _)
\* the summaries after the loop has run over a list of events
accumulateAll(kind, sums, evs, rg) ==
  IF evs = <<>> THEN sums
  ELSE accumulateAll(kind,
                     IF skipEvent(kind, Head(evs), rg.since, rg.until) THEN sums
                     ELSE accumulateEvent(kind, sums, Head(evs)),
                     Tail(evs), rg)

\* the summaries without the cost that is filled in when the rows are built
Uncosted(sums) == [i \in 1..Len(sums) |-> [sums[i] EXCEPT !.costUSD = Zero]]

\* the events the loop has consumed so far
Consumed == SubSeq(events, 1, idx)

\* the model name of the event is absent or blank after trimming
BlankModel(event) == ~event.model.set \/ Trim(event.model.value) = <<>>

\* the model names carried by the events
NamedModels ==
  {Trim(events[i].model.value) : i \in {j \in 1..Len(events) : ~BlankModel(events[j])}}

\* C11: an event whose model name is absent or blank after trimming
\* contributes nothing, in the daily, monthly and session builder: the
\* summaries after any prefix of the events (groups, totals, per-model
\* usage, first and last timestamps) are those of the same prefix with the
\* blank-model events left out, and no pricing lookup is made for a blank
\* name or for a name that no event carries.
C11_BlankModelContributesNothing ==
  entry # "api" =>
    /\ Uncosted(summaries) =
         accumulateAll(entry, <<>>, SelectSeq(Consumed, LAMBDA e : ~BlankModel(e)),
                       range)
    /\ \A i \in 1..Len(summaries) : \A k \in 1..Len(summaries[i].models) :
         summaries[i].models[k].model \in NamedModels
    /\ \A i \in 1..Len(uniqueModels) : uniqueModels[i] \in NamedModels
    /\ \A m \in ModelNames : results[m] # <<>> => m \in NamedModels

C11_Witness ==
  /\ entry = "session"
  /\ buildPc = "returned"
  /\ Len(events) = 2
  /\ events[1].model = Model(S_gpt5)
  /\ events[2].model = Model(S_blank)
  /\ events[2].sessionId = events[1].sessionId
  /\ events[2].timestamp > events[1].timestamp
  /\ Len(rows) = 1
  /\ rows[1].lastActivity = events[1].timestamp
  /\ rows[1].inputTokens = events[1].inputTokens
  /\ Len(rows[1].models) = 1
  /\ TotalCalls = 1

\* the calendar day of the event lies within the inclusive [since, until]
InRange(event) ==
  LET day == event.timestamp \div 100
  IN /\ range.since = ABSENT \/ range.since <= day
     /\ range.until = ABSENT \/ day <= range.until

Unfiltered == [since |-> ABSENT, until |-> ABSENT]

\* the consumed events of a group that have a model name (for sessions: and
\* a session id) and lie within the range
InRangeOf(key) ==
  {i \in 1..idx :
     /\ ~BlankModel(events[i])
     /\ entry = "session" => Trim(events[i].sessionId) # <<>>
     /\ InRange(events[i])
     /\ groupKey(entry, events[i]) = key}

\* the group keys of the consumed events that count
InRangeKeys ==
  {groupKey(entry, events[i]) :
     i \in {j \in 1..idx : /\ ~BlankModel(events[j])
                           /\ entry = "session" => Trim(events[j].sessionId) # <<>>
                           /\ InRange(events[j])}}

\* C12: the inclusive [since, until] filter is applied per event, on the
\* event's calendar day, before accumulation, in all three builders: the
\* summaries after any prefix are those of the in-range events of the prefix
\* accumulated without a filter; the rows are exactly the groups that have
\* an in-range event, and a row's totals (and a session's last activity)
\* come from the in-range events of its group only.
C12_FilterPerEventBeforeAccumulation ==
  entry # "api" =>
    /\ Uncosted(summaries) =
         accumulateAll(entry, <<>>, SelectSeq(Consumed, InRange), Unfiltered)
    /\ {summaries[i].key : i \in 1..Len(summaries)} = InRangeKeys
    /\ buildPc = "returned" =>
         /\ {rows[r].key : r \in 1..Len(rows)} = InRangeKeys
         /\ \A r \in 1..Len(rows) :
              LET C == InRangeOf(rows[r].key)
              IN /\ rows[r].inputTokens = SumOver([i \in C |-> events[i].inputTokens], C)
                 /\ rows[r].outputTokens = SumOver([i \in C |-> events[i].outputTokens], C)
                 /\ rows[r].totalTokens = SumOver([i \in C |-> events[i].totalTokens], C)
                 /\ {rows[r].models[k].model : k \in 1..Len(rows[r].models)} =
                      {Trim(events[i].model.value) : i \in C}
                 /\ entry = "session" =>
                      /\ \E i \in C : rows[r].lastActivity = events[i].timestamp
                      /\ \A i \in C : rows[r].lastActivity >= events[i].timestamp

C12_Witness ==
  /\ entry = "session"
  /\ buildPc = "returned"
  /\ range = [since |-> 911, until |-> 911]
  /\ Len(events) = 2
  /\ events[1].sessionId = events[2].sessionId
  /\ events[1].timestamp \div 100 = 911
  /\ events[2].timestamp \div 100 = 810
  /\ ~BlankModel(events[2])
  /\ Len(rows) = 1
  /\ rows[1].inputTokens = events[1].inputTokens
  /\ rows[1].lastActivity = events[1].timestamp
  /\ Len(rows[1].models) = 1

\* the reorderings of a list of events
Reorderings(evs) ==
  {[i \in 1..Len(evs) |-> evs[p[i]]] :
     p \in {q \in [1..Len(evs) -> 1..Len(evs)] :
              \A i, j \in 1..Len(evs) : q[i] = q[j] => i = j}}

\* a Map of model usages, without the insertion order
UsageMap(models) == {models[k] : k \in 1..Len(models)}

\* the groups of a Map of summaries with their sums, per-model usage and
\* last-seen timestamp, without first-seen timestamp and insertion order
GroupSums(sums) ==
  {[key |-> sums[i].key,
    lastTimestamp |-> sums[i].lastTimestamp,
    inputTokens |-> sums[i].inputTokens,
    cachedInputTokens |-> sums[i].cachedInputTokens,
    outputTokens |-> sums[i].outputTokens,
    reasoningOutputTokens |-> sums[i].reasoningOutputTokens,
    totalTokens |-> sums[i].totalTokens,
    models |-> UsageMap(sums[i].models)] : i \in 1..Len(sums)}

\* the first-seen timestamp of every group
FirstSeen(sums) ==
  {[key |-> sums[i].key, firstTimestamp |-> sums[i].firstTimestamp] :
     i \in 1..Len(sums)}

\* a row with its models as a Record (an object compared key by key)
RowValue(row) == [row EXCEPT !.models = UsageMap(row.models)]

\* the rows the builder returns for a list of events, priced as in this run
RowsOf(evs) ==
  LET sortedSummaries == sortSummaries(entry, accumulateAll(entry, <<>>, evs, range))
  IN [i \in 1..Len(sortedSummaries) |->
        RowValue(buildRow(entry, sortedSummaries[i], modelPricing))]

\* the build has returned rows for the whole list of events
Returned == entry # "api" /\ buildPc = "returned"

\* sums, per-model usage, last-seen timestamps and the set of rows do not
\* depend on the order of the events
C13_SumsAndRowSetInvariant ==
  Returned =>
    \A evs \in Reorderings(events) :
      /\ GroupSums(accumulateAll(entry, <<>>, evs, range)) = GroupSums(summaries)
      /\ {RowsOf(evs)[r] : r \in 1..Len(RowsOf(evs))} =
           {RowValue(rows[r]) : r \in 1..Len(rows)}
      /\ entry \in {"daily", "monthly"} =>
           RowsOf(evs) = [r \in 1..Len(rows) |-> RowValue(rows[r])]

\* the first-seen timestamp of a group does not depend on the order
C13_FirstSeenInvariant ==
  Returned =>
    \A evs \in Reorderings(events) :
      FirstSeen(accumulateAll(entry, <<>>, evs, range)) = FirstSeen(summaries)

\* the sequence of rows does not depend on the order
C13_RowSequenceInvariant ==
  Returned =>
    \A evs \in Reorderings(events) :
      RowsOf(evs) = [r \in 1..Len(rows) |-> RowValue(rows[r])]

\* C13: grouping by day, month and session is invariant under permutation
\* of the events: every reordering of the event list gives the same groups
\* with the same sums per group and per model, the same first-seen
\* timestamp per group, the same last-seen timestamp per session and the
\* same sequence of rows.
C13_PermutationInvariant ==
  /\ C13_SumsAndRowSetInvariant
  /\ C13_FirstSeenInvariant
  /\ C13_RowSequenceInvariant

\* ------------------------------------------------------------------------
\* Properties of the rows
\* ------------------------------------------------------------------------
\* the pricing getPricing returned for the model in this build
ReturnedPricing(m) == results[m][1].value

\* cost of a usage at the per-million rates of a pricing: non-cached input,
\* cached input and output, each at its own rate, as tokens / 1e6 * rate
FormulaCost(usage, pricing) ==
  Plus(Plus(Times(Divide(usage.inputTokens - usage.cachedInputTokens, 1000000),
                  pricing.inputCostPerMToken),
            Times(Divide(usage.cachedInputTokens, 1000000),
                  pricing.cachedInputCostPerMToken)),
       Times(Divide(usage.outputTokens, 1000000), pricing.outputCostPerMToken))

RECURSIVE FormulaCostOfRow(_, _)
FormulaCostOfRow(models, k) ==
  IF k = 0 THEN Zero
  ELSE Plus(FormulaCostOfRow(models, k - 1),
            FormulaCost(models[k], ReturnedPricing(models[k].model)))

\* the Number of a natural number below 2^31
Whole(n) == Rounded(DigitsOf(n), 0, FALSE)

\* the events with the reasoningOutputTokens of event i replaced
WithReasoning(i, n) ==
  [events EXCEPT ![i] = [@ EXCEPT !.reasoningOutputTokens = n]]

\* C14: the costUSD of every row is the sum, over the models of its group,
\* of (inputTokens - cachedInputTokens) * inputCostPerMToken
\* + cachedInputTokens * cachedInputCostPerMToken + outputTokens *
\* outputCostPerMToken (each divided by 1e6) on the accumulated usage of the
\* model at the rates getPricing returned for it, and it stays the same
\* when only the reasoningOutputTokens of an event change.
C14_RowCostFollowsFormula ==
  Returned =>
    /\ \A r \in 1..Len(rows) :
         rows[r].costUSD = FormulaCostOfRow(rows[r].models, Len(rows[r].models))
    /\ \A i \in 1..Len(events) :
       \A n \in {0, events[i].outputTokens} \ {events[i].reasoningOutputTokens} :
         LET changed == RowsOf(WithReasoning(i, n))
         IN /\ Len(changed) = Len(rows)
            /\ \A r \in 1..Len(rows) : changed[r].costUSD = rows[r].costUSD

C14_Witness ==
  /\ entry = "daily"
  /\ buildPc = "returned"
  /\ Len(rows) = 1
  /\ Len(rows[1].models) = 2
  /\ rows[1].cachedInputTokens = 3
  /\ rows[1].reasoningOutputTokens = 1
  /\ \A k \in 1..2 :
       /\ ReturnedPricing(rows[1].models[k].model).inputCostPerMToken = 11000000
       /\ ReturnedPricing(rows[1].models[k].model).cachedInputCostPerMToken = 0
       /\ ReturnedPricing(rows[1].models[k].model).outputCostPerMToken = 21000000
  /\ rows[1].costUSD = Whole(268)

\* the key a row is sorted by
RowSortKey(row) == IF entry = "session" THEN row.lastActivity ELSE row.key

\* C15: the rows come out ascending with exactly one row per distinct group
\* key: daily rows by day key, monthly rows by month key, session rows by
\* last-activity timestamp; of two consecutive rows the earlier row's sort
\* key is not greater than the later row's.
C15_RowsSortedOnePerGroup ==
  Returned =>
    /\ \A r \in 1..(Len(rows) - 1) : RowSortKey(rows[r]) <= RowSortKey(rows[r + 1])
    /\ \A r1, r2 \in 1..Len(rows) : rows[r1].key = rows[r2].key => r1 = r2
    /\ {rows[r].key : r \in 1..Len(rows)} =
         {groupKey(entry, events[i]) :
            i \in {j \in 1..Len(events) :
                     ~skipEvent(entry, events[j], range.since, range.until)}}

C15_Witness ==
  /\ buildPc = "returned"
  /\ Len(rows) = 2
  /\ RowSortKey(rows[1]) < RowSortKey(rows[2])
  /\ summaries[1].key = rows[2].key
  /\ summaries[2].key = rows[1].key

\* ------------------------------------------------------------------------
\* Properties of the normalisation
\* ------------------------------------------------------------------------
\* C16: a returned pricing carries the per-token costs of its matched record
\* times 1,000,000: input and output always, and as cached-input rate the
\* record's cache-read cost times 1,000,000 when the record has one (be it
\* zero), the input rate otherwise.
C16_PerMillionRates ==
  \A m \in ModelNames : \A o \in Outcomes(m) :
    o.tag = "return" =>
      LET record == pricingMap[o.value.pricingModel]
      IN /\ o.value.inputCostPerMToken = record.input_cost_per_token * 1000000
         /\ o.value.outputCostPerMToken = record.output_cost_per_token * 1000000
         /\ o.value.cachedInputCostPerMToken =
              IF record.cache_read_input_token_cost # ABSENT
              THEN record.cache_read_input_token_cost * 1000000
              ELSE o.value.inputCostPerMToken

C16_Witness ==
  /\ \E o \in Outcomes(S_gpt5) :
       /\ o.tag = "return"
       /\ o.value.pricingModel = S_azure \o S_gpt5
       /\ pricingMap[o.value.pricingModel].cache_read_input_token_cost = ABSENT
       /\ o.value.inputCostPerMToken = 13000000
       /\ o.value.cachedInputCostPerMToken = 13000000
       /\ o.value.outputCostPerMToken = 23000000
  /\ \E o \in Outcomes(S_o3) :
       /\ o.tag = "return"
       /\ pricingMap[o.value.pricingModel].cache_read_input_token_cost = 5
       /\ o.value.inputCostPerMToken = 16000000
       /\ o.value.cachedInputCostPerMToken = 5000000

\* ------------------------------------------------------------------------
\* Properties of the session rows
\* ------------------------------------------------------------------------
\* C17: a session row splits its session id on the last '/' only: with a
\* '/' in the id, directory, '/' and sessionFile put together give the id
\* again and sessionFile holds no '/'; without one, directory is empty and
\* sessionFile is the whole id.
C17_SplitOnLastSlash ==
  (Returned /\ entry = "session") =>
    \A r \in 1..Len(rows) :
      LET id == rows[r].key
          file == rows[r].sessionFile
      IN IF \E i \in 1..Len(id) : id[i] = "/"
         THEN /\ rows[r].directory \o <<"/">> \o file = id
              /\ \A i \in 1..Len(file) : file[i] # "/"
         ELSE /\ rows[r].directory = <<>>
              /\ file = id

C17_Witness ==
  /\ entry = "session"
  /\ buildPc = "returned"
  /\ Len(rows) = 1
  /\ rows[1].key = <<"/", "s", "/", "s">>
  /\ rows[1].directory = <<"/", "s">>
  /\ rows[1].sessionFile = <<"s">>

\* ------------------------------------------------------------------------
\* Properties of the pricing lookups of a build
\* ------------------------------------------------------------------------
\* the model names of the summaries
SummaryModels ==
  UNION {{summaries[i].models[k].model : k \in 1..Len(summaries[i].models)} :
           i \in 1..Len(summaries)}

\* getPricing calls made for a name
CallsFor(m) == Len(results[m])

\* no lookup before the loop over the events is over, none for a name that
\* is in no summary, none at all when no event passed the skips
LookupsOnlyForSummaries ==
  /\ TotalCalls > 0 => idx = Len(events)
  /\ \A m \in ModelNames : CallsFor(m) > 0 => m \in SummaryModels
  /\ SummaryModels \subseteq ModelNames
  /\ (idx = Len(events) /\ summaries = <<>>) =>
       /\ TotalCalls = 0
       /\ rows = <<>>
       /\ buildPc # "rejected"

UsageFields ==
  {"inputTokens", "cachedInputTokens", "outputTokens", "reasoningOutputTokens",
   "totalTokens"}

RECURSIVE SumOfModels(_, _, _)
\* the sum of a field over the first k model usages of a summary
SumOfModels(models, field, k) ==
  IF k = 0 THEN 0 ELSE models[k][field] + SumOfModels(models, field, k - 1)

\* C19: after any prefix of the events, for every group and each of
\* inputTokens, cachedInputTokens, outputTokens, reasoningOutputTokens and
\* totalTokens, the group total equals the sum of the group's per-model
\* sub-totals, and both equal the sum of the field over the consumed events
\* that were not skipped and have the group's key.
C19_TotalsAreSumsOfEvents ==
  entry # "api" =>
    \A g \in 1..Len(summaries) :
      LET summary == summaries[g]
          C == InRangeOf(summary.key)
      IN /\ C # {}
         /\ \A field \in UsageFields :
              /\ summary[field] =
                   SumOfModels(summary.models, field, Len(summary.models))
              /\ summary[field] = SumOver([i \in C |-> events[i][field]], C)
         /\ \A k \in 1..Len(summary.models) :
              LET M == {i \in C : Trim(events[i].model.value) = summary.models[k].model}
              IN \A field \in UsageFields :
                   summary.models[k][field] = SumOver([i \in M |-> events[i][field]], M)

C19_Witness ==
  /\ buildPc = "accumulate"
  /\ idx = 2
  /\ Len(summaries) = 1
  /\ Len(summaries[1].models) = 2
  /\ summaries[1].inputTokens = 14
  /\ summaries[1].models[1].inputTokens = 10
  /\ summaries[1].models[2].inputTokens = 4
  /\ summaries[1].reasoningOutputTokens = 1
  /\ summaries[1].totalTokens = 21

\* ------------------------------------------------------------------------
\* Properties of the session timestamps
\* ------------------------------------------------------------------------
\* the largest timestamp of a non-empty set of consumed events
MaxTimestamp(C) ==
  CHOOSE t \in {events[i].timestamp : i \in C} : \A i \in C : events[i].timestamp <= t

\* lastTimestamp is the maximum over the events that contributed so far
LastTimestampIsMax ==
  entry = "session" =>
    /\ \A g \in 1..Len(summaries) :
         /\ InRangeOf(summaries[g].key) # {}
         /\ summaries[g].lastTimestamp = MaxTimestamp(InRangeOf(summaries[g].key))
         /\ summaries[g].firstTimestamp <= summaries[g].lastTimestamp
    /\ \A r \in 1..Len(rows) :
         rows[r].lastActivity = MaxTimestamp(InRangeOf(rows[r].key))

\* a step keeps every session and does not lower its lastTimestamp
LastTimestampGrows ==
  entry = "session" =>
    /\ Len(summaries') >= Len(summaries)
    /\ \A g \in 1..Len(summaries) :
         /\ summaries'[g].key = summaries[g].key
         /\ summaries'[g].lastTimestamp >= summaries[g].lastTimestamp

\* C20: in the session builder, after any prefix of the events a session's
\* lastTimestamp is the maximum timestamp of the events that contributed to
\* the session, firstTimestamp <= lastTimestamp holds, the row's
\* lastActivity is that maximum, and no step lowers a lastTimestamp.
C20_LastTimestampIsTheMaximum ==
  [](LastTimestampIsMax) /\ [][LastTimestampGrows]_vars

C20_Witness ==
  /\ entry = "session"
  /\ buildPc = "returned"
  /\ Len(events) = 2
  /\ events[1].timestamp > events[2].timestamp
  /\ ~skipEvent(entry, events[2], range.since, range.until)
  /\ Len(rows) = 1
  /\ rows[1].lastActivity = events[1].timestamp
  /\ summaries[1].totalTokens = events[1].totalTokens + events[2].totalTokens

\* ------------------------------------------------------------------------
\* Properties of the fallback marker
\* ------------------------------------------------------------------------
\* the consumed events that contributed to the usage of a model in a group
ContributedTo(key, modelName) ==
  {i \in InRangeOf(key) : Trim(events[i].model.value) = modelName}

\* some event among these positions carries the fallback-model marker
Marked(C) == \E i \in C : events[i].isFallbackModel

\* isFallback of a model usage says whether one of its events was marked
IsFallbackIsAnyMarked ==
  entry # "api" =>
    /\ \A g \in 1..Len(summaries) : \A k \in 1..Len(summaries[g].models) :
         LET C == ContributedTo(summaries[g].key, summaries[g].models[k].model)
         IN /\ C # {}
            /\ summaries[g].models[k].isFallback = Marked(C)
    /\ \A r \in 1..Len(rows) : \A k \in 1..Len(rows[r].models) :
         rows[r].models[k].isFallback =
           Marked(ContributedTo(rows[r].key, rows[r].models[k].model))

\* a step keeps every model usage in place, starts a new one unmarked unless
\* its first event is marked, and does not take a marker back
IsFallbackStays ==
  entry # "api" =>
    /\ Len(summaries') >= Len(summaries)
    /\ \A g \in 1..Len(summaries) :
         /\ summaries'[g].key = summaries[g].key
         /\ Len(summaries'[g].models) >= Len(summaries[g].models)
         /\ \A k \in 1..Len(summaries[g].models) :
              /\ summaries'[g].models[k].model = summaries[g].models[k].model
              /\ summaries[g].models[k].isFallback =>
                   summaries'[g].models[k].isFallback
              /\ (summaries'[g].models[k].isFallback
                    /\ ~summaries[g].models[k].isFallback) =>
                   /\ idx' = idx + 1
                   /\ events[idx'].isFallbackModel
                   /\ groupKey(entry, events[idx']) = summaries[g].key
                   /\ Trim(events[idx'].model.value) = summaries[g].models[k].model

\* C21: isFallback is sticky per (group, model): the usage of a model in a
\* group is marked exactly when one of the events that contributed to it
\* carried isFallbackModel = true (so it starts unmarked, and a marker on an
\* event of another model or another group does not set it), no later event
\* takes the marker back, and the row shows the same value.
C21_IsFallbackSticky ==
  [](IsFallbackIsAnyMarked) /\ [][IsFallbackStays]_vars

C21_Witness ==
  /\ buildPc = "returned"
  /\ Len(events) = 2
  /\ events[1].isFallbackModel
  /\ ~events[2].isFallbackModel
  /\ Len(rows) = 1
  /\ Len(rows[1].models) = 1
  /\ rows[1].models[1].isFallback
  /\ rows[1].models[1].inputTokens = events[1].inputTokens + events[2].inputTokens

\* ------------------------------------------------------------------------
\* Properties of the cost arithmetic
\* ------------------------------------------------------------------------
\* the Number after x: one unit in the last place more
NextUp(x) == Renormalized(Increment(x.m), x.e)

\* x and y are equal or next to each other among the Numbers
WithinOneUlp(x, y) == x = y \/ (x # Zero /\ y = NextUp(x)) \/ (y # Zero /\ x = NextUp(y))

\* the events of a build that counted, got a pricing and belong to a group
PricedEvents(key) ==
  {i \in InRangeOf(key) : results[Trim(events[i].model.value)] # <<>>}

\* the cost of the event at position i at the rates returned for its model
EventCost(i) == calculateCostUSD(events[i], ReturnedPricing(Trim(events[i].model.value)))

RECURSIVE SumOfEventCosts(_, _)
\* the costs of the events at the positions C up to n, added up one by one
SumOfEventCosts(C, n) ==
  IF n = 0 THEN Zero
  ELSE IF n \in C THEN Plus(SumOfEventCosts(C, n - 1), EventCost(n))
  ELSE SumOfEventCosts(C, n - 1)

\* two different events of one model in one group
SameModelPairs ==
  {p \in (1..Len(events)) \X (1..Len(events)) :
     /\ p[1] < p[2]
     /\ \E r \in 1..Len(rows) : {p[1], p[2]} \subseteq PricedEvents(rows[r].key)
     /\ Trim(events[p[1]].model.value) = Trim(events[p[2]].model.value)}

\* the cost of the sum of the two deltas
CostOfSum(p) ==
  calculateCostUSD(addUsage(addUsage(createEmptyUsage, events[p[1]]), events[p[2]]),
                   ReturnedPricing(Trim(events[p[1]].model.value)))

====
